---- MODULE Spec2Model ----
(* Account state machine and referral engine of the donation backend:       *)
(* the handlers of the auth controller (register, verifyEmail, loginUser,   *)
(* googleLogin, forgotPassword, resetPassword, resendVerificationEmail),    *)
(* the referral controller and the bearer-auth middleware, over one         *)
(* collection of User documents.  Every handler is a sequence of store      *)
(* operations (findOne, save, create); each store operation is one step,    *)
(* and steps of different requests may interleave.                          *)
EXTENDS Integers, Sequences, FiniteSets, TLC

VARIABLES users, req, now, ticks, nextToken, streak, spent

vars == <<users, req, now, ticks, nextToken, streak, spent>>

-----------------------------------------------------------------------------
(* Bounds of the model *)

MaxTokens == 2
MaxTicks == 1
MaxUsers == 3
MaxPoints == 5
StartOfTime == 1
MaxFailures == 6

(* Program constants *)

VERIFY_TTL == 24 * 60 * 60 * 1000
RESET_TTL == 60 * 60 * 1000
LOCK_THRESHOLD == 5

(* Absent values of the optional schema paths *)
NoToken == 0
NoDate == 0
NoUser == 0

(* Request inputs *)
EmailInputs == {"a@x", "A@x"}
Passwords == {"p1", "p2"}
Subs == {"g1"}
Tokens == 1..MaxTokens
GoogleEmails == {"a@x", "b@x"}
Procs == {1, 2}
SeqProcs == {1}

-----------------------------------------------------------------------------
(* The store *)

\* schema option lowercase: true on email
Lower(e) == IF e = "A@x" THEN "a@x" ELSE e

\* bcrypt.hash / bcrypt.compare; the salt plays no role in the comparison
Hash(pw) == <<"bcrypt", pw>>
Compare(pw, h) == h = Hash(pw)

Ids == 1..Len(users)

Min(S) == CHOOSE x \in S : \A y \in S : x <= y

\* a document as User.create builds it from the schema defaults
NewUser(email, password, googleId, isVerified, vTok, vExp) ==
  [ email |-> Lower(email),
    password |-> password,
    isVerified |-> isVerified,
    googleId |-> googleId,
    sawabPoints |-> 0,
    referralCode |-> "",
    referredBy |-> NoUser,
    referralCount |-> 0,
    verificationToken |-> vTok,
    verificationTokenExpiry |-> vExp,
    resetPasswordToken |-> NoToken,
    resetPasswordExpiry |-> NoDate,
    loginAttempts |-> 0,
    accountLocked |-> FALSE,
    lastLogin |-> NoDate ]

NoDoc == [ email |-> "" ]

\* User.findOne(filter), given the documents S the filter matches: the first
\* of them in natural order, none when S is empty
FindOne(S) == IF S = {} THEN NoUser ELSE Min(S)

FindByEmail(e) == FindOne({i \in Ids : users[i].email = Lower(e)})

FindByUnexpiredVerificationToken(t) ==
  FindOne({i \in Ids : /\ users[i].verificationToken = t
                       /\ users[i].verificationTokenExpiry > now})

\* verifyEmail's lookup: User.findOne({ verificationToken: token })
FindByVerificationToken(t) == FindOne({i \in Ids : users[i].verificationToken = t})

EmailIndexAbsent(e) == TRUE

\* unique index on email: the insert is refused when the key is taken
EmailIndexAllows(e) == \A i \in Ids : users[i].email # Lower(e)

SaveDocWhole(id, doc, paths) == [users EXCEPT ![id] = doc]

\* document.save() of a loaded document: $set of the modified paths only
SaveDoc(id, doc, paths) ==
  [users EXCEPT ![id] = [f \in DOMAIN @ |-> IF f \in paths THEN doc[f] ELSE @[f]]]

-----------------------------------------------------------------------------
(* Requests *)

Idle ==
  [ pc |-> "idle", op |-> "", email |-> "", password |-> "", token |-> NoToken,
    sub |-> "", emailVerified |-> FALSE, bearer |-> NoUser, code |-> "",
    id |-> NoUser, other |-> NoUser, otherDoc |-> NoDoc, doc |-> NoDoc, fresh |-> NoToken, expiry |-> NoDate,
    status |-> 0, message |-> "", jwt |-> NoUser, points |-> 0 ]

CanStart(p) == req[p].pc \in {"idle", "done"}

\* the request record of a handler that starts with the given inputs
Begin(op, email, password, token) ==
  [Idle EXCEPT !.op = op, !.email = email, !.password = password, !.token = token]

\* res.status(s).json(...): the handler ends; jwt is the user the bearer token names
Reply(r, status, message, jwt) ==
  [r EXCEPT !.pc = "done", !.id = NoUser, !.doc = NoDoc, !.fresh = NoToken,
            !.other = NoUser, !.otherDoc = NoDoc,
            !.expiry = NoDate, !.status = status, !.message = message, !.jwt = jwt]

\* generateToken(user._id)
GenerateToken(id) == id

\* crypto.randomBytes(32).toString('hex'): a value never drawn before
CanDraw == nextToken <= MaxTokens

NoStreak == [email |-> "", n |-> 0]

TypeOK ==
  /\ now \in Nat
  /\ ticks \in 0..MaxTicks
  /\ nextToken \in 1..(MaxTokens + 1)
  /\ Len(users) <= MaxUsers

Init ==
  /\ users = <<>>
  /\ req = [p \in Procs |-> Idle]
  /\ now = StartOfTime
  /\ ticks = 0
  /\ nextToken = 1
  /\ streak = NoStreak
  /\ spent = {}

-----------------------------------------------------------------------------
(* register *)

UserExistsExactSpelling(email) == \E i \in Ids : users[i].email = email

\* register's lookup: const userExists = await User.findOne({ email })
UserExists(email) == FindByEmail(email) # NoUser

RegisterStart(p, E) ==
  /\ CanStart(p)
  /\ \E email \in E \cup {""}, password \in Passwords \cup {""} :
       LET r == Begin("register", email, password, NoToken) IN
       IF email = "" \/ password = ""
       THEN /\ req' = [req EXCEPT ![p] = Reply(r, 400, "Please provide email and password", NoUser)]
            /\ UNCHANGED nextToken
       ELSE IF UserExists(email)
       THEN /\ req' = [req EXCEPT ![p] = Reply(r, 400, "User already exists", NoUser)]
            /\ UNCHANGED nextToken
       ELSE /\ CanDraw
            /\ req' = [req EXCEPT ![p] = [r EXCEPT !.pc = "register_create",
                                                   !.fresh = nextToken,
                                                   !.expiry = now + VERIFY_TTL]]
            /\ nextToken' = nextToken + 1
  /\ UNCHANGED <<users, now, ticks>>

RegisterCreate(p) ==
  /\ req[p].pc = "register_create"
  /\ Len(users) < MaxUsers
  /\ LET r == req[p] IN
     IF EmailIndexAllows(r.email)
     THEN /\ users' = Append(users, NewUser(r.email, Hash(r.password), "", FALSE,
                                            r.fresh, r.expiry))
          /\ req' = [req EXCEPT ![p] = Reply(r, 201, "User registered successfully", NoUser)]
     ELSE /\ req' = [req EXCEPT ![p] = Reply(r, 500, "Server error", NoUser)]
          /\ UNCHANGED users
  /\ UNCHANGED <<now, ticks, nextToken>>

(* verifyEmail *)

VerifyEmailStart(p) ==
  /\ CanStart(p)
  /\ \E token \in Tokens :
       LET r == Begin("verifyEmail", "", "", token)
           id == FindByVerificationToken(token) IN
       IF id = NoUser
       THEN req' = [req EXCEPT ![p] = Reply(r, 400, "Invalid verification token", NoUser)]
       ELSE req' = [req EXCEPT ![p] = [r EXCEPT !.pc = "verify_save", !.id = id,
                                                !.doc = users[id]]]
  /\ UNCHANGED <<users, now, ticks, nextToken>>

VerifyFieldsKeepToken(doc) == [doc EXCEPT !.isVerified = TRUE]

\* the fields verifyEmail assigns on the loaded document
VerifyFields(doc) == [doc EXCEPT !.isVerified = TRUE, !.verificationToken = NoToken]

VerifyEmailSave(p) ==
  /\ req[p].pc = "verify_save"
  /\ LET r == req[p]
         doc == VerifyFields(r.doc)
         paths == {f \in {"isVerified", "verificationToken"} : doc[f] # r.doc[f]} IN
     /\ users' = SaveDoc(r.id, doc, paths)
     /\ req' = [req EXCEPT ![p] = Reply(r, 200, "Email verified successfully",
                                        GenerateToken(r.id))]
  /\ UNCHANGED <<now, ticks, nextToken>>

-----------------------------------------------------------------------------
(* loginUser *)

NoSuchUserNotFound(r) == Reply(r, 404, "User not found", NoUser)

\* loginUser's answer when findOne finds no record for the address
NoSuchUser(r) == Reply(r, 400, "Invalid credentials", NoUser)

LoginStart(p, E) ==
  /\ CanStart(p)
  /\ \E email \in E, password \in Passwords :
       LET r == Begin("login", email, password, NoToken)
           id == FindByEmail(email) IN
       IF id = NoUser
       THEN /\ req' = [req EXCEPT ![p] = NoSuchUser(r)]
            /\ UNCHANGED nextToken
       ELSE IF users[id].accountLocked
       THEN /\ req' = [req EXCEPT ![p] = Reply(r, 401, "Your account has been locked", NoUser)]
            /\ UNCHANGED nextToken
       ELSE IF ~users[id].isVerified /\ users[id].googleId = ""
       THEN /\ CanDraw
            /\ req' = [req EXCEPT ![p] = [r EXCEPT !.pc = "login_rotate", !.id = id,
                                                   !.doc = users[id],
                                                   !.fresh = nextToken,
                                                   !.expiry = now + VERIFY_TTL]]
            /\ nextToken' = nextToken + 1
       ELSE /\ req' = [req EXCEPT ![p] =
                         [r EXCEPT !.pc = IF Compare(password, users[id].password)
                                          THEN "login_ok" ELSE "login_fail",
                                   !.id = id, !.doc = users[id]]]
            /\ UNCHANGED nextToken
  /\ UNCHANGED <<users, now, ticks>>

RotateFieldsExpiryOnly(doc, token, expiry) ==
  [doc EXCEPT !.verificationTokenExpiry = expiry]

\* the fields loginUser assigns on the document of an unverified account
RotateFields(doc, token, expiry) ==
  [doc EXCEPT !.verificationToken = token, !.verificationTokenExpiry = expiry]

\* unverified account: a new verification token is stored and mailed
LoginRotate(p) ==
  /\ req[p].pc = "login_rotate"
  /\ LET r == req[p]
         doc == RotateFields(r.doc, r.fresh, r.expiry)
         paths == {f \in DOMAIN doc : doc[f] # r.doc[f]} IN
     /\ users' = SaveDoc(r.id, doc, paths)
     /\ req' = [req EXCEPT ![p] = Reply(r, 401, "Please verify your email before logging in", NoUser)]
  /\ UNCHANGED <<now, ticks, nextToken>>

FailedAttemptLate(doc) ==
  LET n == doc.loginAttempts + 1 IN
  [doc EXCEPT !.loginAttempts = n,
              !.accountLocked = IF n > LOCK_THRESHOLD THEN TRUE ELSE @]

\* the lockout rule applied to the loaded document
FailedAttempt(doc) ==
  LET n == doc.loginAttempts + 1 IN
  [doc EXCEPT !.loginAttempts = n,
              !.accountLocked = IF n >= LOCK_THRESHOLD THEN TRUE ELSE @]

LoadedFresh(r) == users[r.id]

\* the document the handler holds: the copy its findOne returned
Loaded(r) == r.doc

LoginFail(p) ==
  /\ req[p].pc = "login_fail"
  /\ LET r == req[p]
         doc == FailedAttempt(Loaded(r))
         paths == {f \in {"loginAttempts", "accountLocked"} : doc[f] # Loaded(r)[f]} IN
     /\ users' = SaveDoc(r.id, doc, paths)
     /\ req' = [req EXCEPT ![p] = Reply(r, 400, "Invalid credentials", NoUser)]
  /\ UNCHANGED <<now, ticks, nextToken>>

SucceedFieldsKeepCount(doc, t) == [doc EXCEPT !.lastLogin = t]

\* the fields loginUser assigns on the loaded document when the password
\* matches
SucceedFields(doc, t) == [doc EXCEPT !.loginAttempts = 0, !.lastLogin = t]

LoginOk(p) ==
  /\ req[p].pc = "login_ok"
  /\ LET r == req[p]
         doc == SucceedFields(r.doc, now)
         paths == {f \in {"loginAttempts", "lastLogin"} : doc[f] # r.doc[f]} IN
     /\ users' = SaveDoc(r.id, doc, paths)
     /\ req' = [req EXCEPT ![p] = Reply(r, 200, "", GenerateToken(r.id))]
  /\ UNCHANGED <<now, ticks, nextToken>>

-----------------------------------------------------------------------------
(* googleLogin *)

\* the identity assertions a client can send: none, one that fails
\* verifyIdToken, or a valid one with its payload
GoogleLoginStart(p, E) ==
  /\ CanStart(p)
  /\ \/ req' = [req EXCEPT ![p] = Reply(Begin("googleLogin", "", "", NoToken),
                                        400, "ID Token is required", NoUser)]
     \/ req' = [req EXCEPT ![p] = Reply(Begin("googleLogin", "", "", NoToken),
                                        401, "Failed to verify Google token", NoUser)]
     \/ \E email \in E, sub \in Subs, ev \in BOOLEAN :
          LET r == [Begin("googleLogin", email, "", NoToken)
                      EXCEPT !.sub = sub, !.emailVerified = ev]
              id == FindByEmail(email) IN
          IF id = NoUser
          THEN req' = [req EXCEPT ![p] = [r EXCEPT !.pc = "google_create"]]
          ELSE IF users[id].googleId = ""
          THEN req' = [req EXCEPT ![p] = [r EXCEPT !.pc = "google_link", !.id = id,
                                                   !.doc = users[id]]]
          ELSE IF ~users[id].isVerified /\ ev
          THEN req' = [req EXCEPT ![p] = [r EXCEPT !.pc = "google_verify", !.id = id,
                                                   !.doc = users[id]]]
          ELSE req' = [req EXCEPT ![p] = Reply(r, 200, "", GenerateToken(id))]
  /\ UNCHANGED <<users, now, ticks, nextToken>>

GoogleLink(p) ==
  /\ req[p].pc = "google_link"
  /\ LET r == req[p]
         doc == [r.doc EXCEPT !.googleId = r.sub] IN
     /\ users' = SaveDoc(r.id, doc, {"googleId"})
     /\ IF ~doc.isVerified /\ r.emailVerified
        THEN req' = [req EXCEPT ![p] = [r EXCEPT !.pc = "google_verify", !.doc = doc]]
        ELSE req' = [req EXCEPT ![p] = Reply(r, 200, "", GenerateToken(r.id))]
  /\ UNCHANGED <<now, ticks, nextToken>>

GoogleVerify(p) ==
  /\ req[p].pc = "google_verify"
  /\ LET r == req[p]
         doc == [r.doc EXCEPT !.isVerified = TRUE] IN
     /\ users' = SaveDoc(r.id, doc, {"isVerified"})
     /\ req' = [req EXCEPT ![p] = Reply(r, 200, "", GenerateToken(r.id))]
  /\ UNCHANGED <<now, ticks, nextToken>>

GoogleUserVerified(r) ==
  NewUser(r.email, Hash("random"), r.sub, TRUE, NoToken, NoDate)

\* the document googleLogin creates from the payload: a random password, the
\* provider's subject and the provider's email_verified flag
GoogleUser(r) ==
  NewUser(r.email, Hash("random"), r.sub, r.emailVerified, NoToken, NoDate)

\* a rejected insert is caught by the handler's inner catch
GoogleCreate(p) ==
  /\ req[p].pc = "google_create"
  /\ Len(users) < MaxUsers
  /\ LET r == req[p] IN
     IF EmailIndexAllows(r.email)
     THEN /\ users' = Append(users, GoogleUser(r))
          /\ req' = [req EXCEPT ![p] = Reply(r, 200, "", GenerateToken(Len(users) + 1))]
     ELSE /\ req' = [req EXCEPT ![p] = Reply(r, 401, "Failed to verify Google token", NoUser)]
          /\ UNCHANGED users
  /\ UNCHANGED <<now, ticks, nextToken>>

-----------------------------------------------------------------------------
(* forgotPassword, resetPassword *)

ForgotPasswordStart(p, E) ==
  /\ CanStart(p)
  /\ \E email \in E :
       LET r == Begin("forgotPassword", email, "", NoToken)
           id == FindByEmail(email) IN
       IF id = NoUser
       THEN /\ req' = [req EXCEPT ![p] = Reply(r, 404, "User not found", NoUser)]
            /\ UNCHANGED nextToken
       ELSE /\ CanDraw
            /\ req' = [req EXCEPT ![p] = [r EXCEPT !.pc = "forgot_save", !.id = id,
                                                   !.doc = users[id],
                                                   !.fresh = nextToken,
                                                   !.expiry = now + RESET_TTL]]
            /\ nextToken' = nextToken + 1
  /\ UNCHANGED <<users, now, ticks>>

ForgotFieldsKeepPending(doc, token, expiry) ==
  IF doc.resetPasswordToken # NoToken
  THEN doc
  ELSE [doc EXCEPT !.resetPasswordToken = token, !.resetPasswordExpiry = expiry]

ForgotFieldsTokenOnly(doc, token, expiry) ==
  [doc EXCEPT !.resetPasswordToken = token]

\* the fields forgotPassword assigns on the loaded document
ForgotFields(doc, token, expiry) ==
  [doc EXCEPT !.resetPasswordToken = token, !.resetPasswordExpiry = expiry]

\* the token is stored first; the mail dispatch that follows may fail
ForgotPasswordSave(p) ==
  /\ req[p].pc = "forgot_save"
  /\ LET r == req[p]
         doc == ForgotFields(r.doc, r.fresh, r.expiry)
         paths == {f \in {"resetPasswordToken", "resetPasswordExpiry"} : doc[f] # r.doc[f]} IN
     /\ users' = SaveDoc(r.id, doc, paths)
     /\ \E mailSent \in BOOLEAN :
          req' = [req EXCEPT ![p] = IF mailSent
                                    THEN Reply(r, 200, "Password reset email sent", NoUser)
                                    ELSE Reply(r, 500, "Server error", NoUser)]
  /\ UNCHANGED <<now, ticks, nextToken>>

ResetTokenMatchesAtExpiry(u, token, t) ==
  u.resetPasswordToken = token /\ u.resetPasswordExpiry >= t

\* findOne({ resetPasswordToken: token, resetPasswordExpiry: { $gt: Date.now() } })
ResetTokenMatches(u, token, t) ==
  u.resetPasswordToken = token /\ u.resetPasswordExpiry > t

FindByResetToken(token) == FindOne({i \in Ids : ResetTokenMatches(users[i], token, now)})

ResetPasswordStart(p) ==
  /\ CanStart(p)
  /\ \E token \in Tokens, password \in Passwords :
       LET r == Begin("resetPassword", "", password, token)
           id == FindByResetToken(token) IN
       IF id = NoUser
       THEN req' = [req EXCEPT ![p] = Reply(r, 400, "Invalid or expired reset token", NoUser)]
       ELSE req' = [req EXCEPT ![p] = [r EXCEPT !.pc = "reset_save", !.id = id,
                                                !.doc = users[id]]]
  /\ UNCHANGED <<users, now, ticks, nextToken>>

ResetFieldsUnlock(doc, password) ==
  [doc EXCEPT !.password = Hash(password),
              !.resetPasswordToken = NoToken,
              !.resetPasswordExpiry = NoDate,
              !.accountLocked = FALSE,
              !.loginAttempts = 0]

ResetFieldsVerify(doc, password) ==
  [doc EXCEPT !.password = Hash(password),
              !.resetPasswordToken = NoToken,
              !.resetPasswordExpiry = NoDate,
              !.isVerified = TRUE]

\* the fields resetPassword assigns on the loaded document
ResetFields(doc, password) ==
  [doc EXCEPT !.password = Hash(password),
              !.resetPasswordToken = NoToken,
              !.resetPasswordExpiry = NoDate]

ResetPasswordSave(p) ==
  /\ req[p].pc = "reset_save"
  /\ LET r == req[p]
         doc == ResetFields(r.doc, r.password)
         paths == {"password"} \cup {f \in DOMAIN doc : doc[f] # r.doc[f]} IN
     /\ users' = SaveDoc(r.id, doc, paths)
     /\ req' = [req EXCEPT ![p] = Reply(r, 200, "Password reset successful", NoUser)]
  /\ UNCHANGED <<now, ticks, nextToken>>

-----------------------------------------------------------------------------
(* resendVerificationEmail *)

ResendStart(p, E) ==
  /\ CanStart(p)
  /\ \E email \in E \cup {""} :
       LET r == Begin("resendVerification", email, "", NoToken)
           id == FindByEmail(email) IN
       IF email = ""
       THEN /\ req' = [req EXCEPT ![p] = Reply(r, 400, "Email is required", NoUser)]
            /\ UNCHANGED nextToken
       ELSE IF id = NoUser
       THEN /\ req' = [req EXCEPT ![p] = Reply(r, 404, "User not found", NoUser)]
            /\ UNCHANGED nextToken
       ELSE IF users[id].isVerified
       THEN /\ req' = [req EXCEPT ![p] = Reply(r, 400, "Email is already verified", NoUser)]
            /\ UNCHANGED nextToken
       ELSE /\ CanDraw
            /\ req' = [req EXCEPT ![p] = [r EXCEPT !.pc = "resend_save", !.id = id,
                                                   !.doc = users[id],
                                                   !.fresh = nextToken]]
            /\ nextToken' = nextToken + 1
  /\ UNCHANGED <<users, now, ticks>>

ResendSave(p) ==
  /\ req[p].pc = "resend_save"
  /\ LET r == req[p]
         doc == [r.doc EXCEPT !.verificationToken = r.fresh] IN
     /\ users' = SaveDoc(r.id, doc, {"verificationToken"})
     /\ \E mailSent \in BOOLEAN :
          req' = [req EXCEPT ![p] = IF mailSent
                                    THEN Reply(r, 200, "Verification email sent successfully", NoUser)
                                    ELSE Reply(r, 500, "Failed to send verification email", NoUser)]
  /\ UNCHANGED <<now, ticks, nextToken>>

-----------------------------------------------------------------------------
(* protect: the bearer-auth middleware in front of the referral routes *)

\* the users some client holds a bearer token for: verifyEmail, loginUser
\* and googleLogin are the only issuers, and each leaves such an account
Holders == {i \in Ids : users[i].isVerified \/ users[i].googleId # ""}

\* a request without a token or with one that jwt.verify rejects is answered
\* 401; otherwise the token's user is loaded and must be verified
ProtectTokenOnly(p, op, code, first) ==
  /\ CanStart(p)
  /\ \/ req' = [req EXCEPT ![p] = Reply([Begin(op, "", "", NoToken) EXCEPT !.code = code],
                                        401, "Not authorized to access this route", NoUser)]
     \/ \E bearer \in Holders :
          LET r == [Begin(op, "", "", NoToken) EXCEPT !.code = code, !.bearer = bearer] IN
          req' = [req EXCEPT ![p] = [r EXCEPT !.pc = first, !.id = bearer]]
  /\ UNCHANGED <<users, now, ticks, nextToken>>

Protect(p, op, code, first) ==
  /\ CanStart(p)
  /\ \/ req' = [req EXCEPT ![p] = Reply([Begin(op, "", "", NoToken) EXCEPT !.code = code],
                                        401, "Not authorized to access this route", NoUser)]
     \/ \E bearer \in Holders :
          LET r == [Begin(op, "", "", NoToken) EXCEPT !.code = code, !.bearer = bearer] IN
          IF ~users[bearer].isVerified
          THEN req' = [req EXCEPT ![p] = Reply(r, 401, "Email not verified", NoUser)]
          ELSE req' = [req EXCEPT ![p] = [r EXCEPT !.pc = first, !.id = bearer]]
  /\ UNCHANGED <<users, now, ticks, nextToken>>

-----------------------------------------------------------------------------
(* referral controller *)

\* the codes generateReferralCode can derive: six characters of the user id
\* followed by two random hex digits; ids created in the same 256 seconds
\* share the six characters
Candidates(id) == {"65A1F200", "65A1F2FF"}

Codes == UNION {Candidates(i) : i \in 1..MaxUsers}

FindByReferralCode(c) == FindOne({i \in Ids : users[i].referralCode = c})

ReferralCodeIndexAbsent(id, c) == TRUE

\* unique sparse index on referralCode
ReferralCodeIndexAllows(id, c) ==
  \A i \in Ids : users[i].referralCode = c => i = id

GetReferralInfoStart(p) == Protect(p, "getReferralInfo", "", "info_find")

ReferralInfoReply(r, doc) ==
  [Reply(r, 200, "", NoUser) EXCEPT !.code = doc.referralCode, !.points = doc.sawabPoints]

GetReferralInfoFind(p) ==
  /\ req[p].pc = "info_find"
  /\ LET r == req[p] IN
     IF users[r.id].referralCode # ""
     THEN req' = [req EXCEPT ![p] = ReferralInfoReply(r, users[r.id])]
     ELSE req' = [req EXCEPT ![p] = [r EXCEPT !.pc = "info_generate", !.doc = users[r.id]]]
  /\ UNCHANGED <<users, now, ticks, nextToken>>

CodeTakenNever(c) == FALSE

\* generateReferralCode's uniqueness query: User.findOne({ referralCode: code })
CodeTaken(c) == FindByReferralCode(c) # NoUser

\* generateReferralCode: draw a candidate, look it up, draw again when taken
GenerateReferralCode(p) ==
  /\ req[p].pc = "info_generate"
  /\ \E c \in Candidates(req[p].id) :
       IF CodeTaken(c)
       THEN req' = [req EXCEPT ![p] = [@ EXCEPT !.code = c]]
       ELSE req' = [req EXCEPT ![p] = [@ EXCEPT !.code = c, !.pc = "info_save"]]
  /\ UNCHANGED <<users, now, ticks, nextToken>>

GetReferralInfoSave(p) ==
  /\ req[p].pc = "info_save"
  /\ LET r == req[p]
         doc == [r.doc EXCEPT !.referralCode = r.code] IN
     IF ReferralCodeIndexAllows(r.id, r.code)
     THEN /\ users' = SaveDoc(r.id, doc, {"referralCode"})
          /\ req' = [req EXCEPT ![p] = ReferralInfoReply(r, doc)]
     ELSE /\ req' = [req EXCEPT ![p] = [Reply(r, 500, "Server error", NoUser) EXCEPT !.code = ""]]
          /\ UNCHANGED users
  /\ UNCHANGED <<now, ticks, nextToken>>

ApplyReferralCodeStart(p) ==
  \E code \in Codes : Protect(p, "applyReferralCode", code, "apply_find_referrer")

SelfReferralNever(referrer, id) == FALSE

\* applyReferralCode's check: referrer._id.toString() === req.user.id
SelfReferral(referrer, id) == referrer = id

ApplyFindReferrer(p) ==
  /\ req[p].pc = "apply_find_referrer"
  /\ LET r == req[p]
         referrer == FindByReferralCode(r.code) IN
     IF referrer = NoUser
     THEN req' = [req EXCEPT ![p] = Reply(r, 404, "Invalid referral code", NoUser)]
     ELSE IF SelfReferral(referrer, r.id)
     THEN req' = [req EXCEPT ![p] = Reply(r, 400, "You cannot refer yourself", NoUser)]
     ELSE req' = [req EXCEPT ![p] = [r EXCEPT !.pc = "apply_find_current",
                                              !.other = referrer,
                                              !.otherDoc = users[referrer]]]
  /\ UNCHANGED <<users, now, ticks, nextToken>>

AlreadyReferredNever(doc) == FALSE

\* applyReferralCode's check of the caller: if (currentUser.referredBy)
AlreadyReferred(doc) == doc.referredBy # NoUser

ApplyFindCurrent(p) ==
  /\ req[p].pc = "apply_find_current"
  /\ LET r == req[p] IN
     IF AlreadyReferred(users[r.id])
     THEN req' = [req EXCEPT ![p] = Reply(r, 400, "You have already used a referral code", NoUser)]
     ELSE req' = [req EXCEPT ![p] = [r EXCEPT !.pc = "apply_save_referrer",
                                              !.doc = users[r.id]]]
  /\ UNCHANGED <<users, now, ticks, nextToken>>

CreditReferrerPointsOnly(doc) == [doc EXCEPT !.sawabPoints = @ + 5]

CreditReferrerNothing(doc) == doc

\* the referrer's reward
CreditReferrer(doc) ==
  [doc EXCEPT !.sawabPoints = @ + 5, !.referralCount = @ + 1]

\* the caller's reward and back-reference
CreditCallerPointsOnly(doc, referrer) == [doc EXCEPT !.sawabPoints = @ + 2]

CreditCaller(doc, referrer) ==
  [doc EXCEPT !.referredBy = referrer, !.sawabPoints = @ + 2]

ApplySaveReferrer(p) ==
  /\ req[p].pc = "apply_save_referrer"
  /\ LET r == req[p]
         doc == CreditReferrer(r.otherDoc) IN
     /\ doc.sawabPoints <= MaxPoints
     /\ users' = SaveDoc(r.other, doc, {"sawabPoints", "referralCount"})
     /\ req' = [req EXCEPT ![p] = [r EXCEPT !.pc = "apply_save_current", !.otherDoc = doc]]
  /\ UNCHANGED <<now, ticks, nextToken>>

ApplySaveCurrent(p) ==
  /\ req[p].pc = "apply_save_current"
  /\ LET r == req[p]
         doc == CreditCaller(r.doc, r.other) IN
     /\ doc.sawabPoints <= MaxPoints
     /\ users' = SaveDoc(r.id, doc, {"referredBy", "sawabPoints"})
     /\ req' = [req EXCEPT ![p] = [Reply(r, 200, "Referral code applied successfully", NoUser)
                                     EXCEPT !.points = doc.sawabPoints]]
  /\ UNCHANGED <<now, ticks, nextToken>>

\* referrer.save() rejects: the handler's catch answers 500 and nothing was
\* written
ApplySaveReferrerFails(p) ==
  /\ req[p].pc = "apply_save_referrer"
  /\ req' = [req EXCEPT ![p] = Reply(req[p], 500, "Server error", NoUser)]
  /\ UNCHANGED <<users, now, ticks, nextToken>>

\* currentUser.save() rejects after referrer.save() was applied: the
\* handler's catch answers 500 and the referrer's record stays as written
ApplySaveCurrentFails(p) ==
  /\ req[p].pc = "apply_save_current"
  /\ req' = [req EXCEPT ![p] = Reply(req[p], 500, "Server error", NoUser)]
  /\ UNCHANGED <<users, now, ticks, nextToken>>

ShareReferralLinkStart(p) == Protect(p, "shareReferralLink", "", "share_find")

ShareFind(p) ==
  /\ req[p].pc = "share_find"
  /\ req' = [req EXCEPT ![p] = [@ EXCEPT !.pc = "share_save", !.doc = users[req[p].id]]]
  /\ UNCHANGED <<users, now, ticks, nextToken>>

CreditShareOnce(doc) == [doc EXCEPT !.sawabPoints = IF @ = 0 THEN 2 ELSE @]

\* the reward for sharing
CreditShare(doc) == [doc EXCEPT !.sawabPoints = @ + 2]

ShareSave(p) ==
  /\ req[p].pc = "share_save"
  /\ LET r == req[p]
         doc == CreditShare(r.doc) IN
     /\ doc.sawabPoints <= MaxPoints
     /\ users' = SaveDoc(r.id, doc, {"sawabPoints"})
     /\ req' = [req EXCEPT ![p] = [Reply(r, 200, "Points awarded for sharing", NoUser)
                                     EXCEPT !.points = doc.sawabPoints]]
  /\ UNCHANGED <<now, ticks, nextToken>>

GetSawabPointsStart(p) == Protect(p, "getSawabPoints", "", "points_find")

GetSawabPointsFind(p) ==
  /\ req[p].pc = "points_find"
  /\ req' = [req EXCEPT ![p] = [Reply(req[p], 200, "", NoUser)
                                  EXCEPT !.points = users[req[p].id].sawabPoints]]
  /\ UNCHANGED <<users, now, ticks, nextToken>>

-----------------------------------------------------------------------------
(* the clock *)

Tick ==
  /\ ticks < MaxTicks
  /\ \E d \in {RESET_TTL, VERIFY_TTL} : now' = now + d
  /\ ticks' = ticks + 1
  /\ UNCHANGED <<users, req, nextToken>>

\* a day passes between two requests, or a day and a millisecond
TickDay ==
  /\ ticks < MaxTicks
  /\ \E d \in {VERIFY_TTL, VERIFY_TTL + 1} : now' = now + d
  /\ ticks' = ticks + 1
  /\ UNCHANGED <<users, req, nextToken>>

-----------------------------------------------------------------------------
(* History of the run, kept for the statements below *)

\* p's handler sends its response in this step
Replied(p) == req'[p] # req[p] /\ req'[p].pc = "done"

\* no request is between two of its store operations
Quiet == \A p \in Procs : CanStart(p)

\* the number of consecutive wrong-password logins on one account, counted
\* from a verified, unlocked account with loginAttempts = 0; any other
\* response ends the run, and a run of five is remembered
StreakNext ==
  IF \E p \in Procs : Replied(p)
  THEN LET p == CHOOSE q \in Procs : Replied(q)
           r == req'[p]
           id == FindByEmail(r.email)
       IN IF streak.n >= 5 THEN streak
          ELSE IF r.op = "login" /\ id # NoUser /\ ~Compare(r.password, users[id].password)
          THEN IF streak.n > 0 /\ streak.email = users[id].email
               THEN [streak EXCEPT !.n = @ + 1]
               ELSE IF users[id].isVerified /\ ~users[id].accountLocked
                       /\ users[id].loginAttempts = 0
               THEN [email |-> users[id].email, n |-> 1]
               ELSE NoStreak
          ELSE NoStreak
  ELSE streak

\* the number of wrong-password logins that were answered since the last
\* successful login, counted up to MaxFailures
FailuresNext ==
  IF \E p \in Procs : Replied(p)
  THEN LET p == CHOOSE q \in Procs : Replied(q)
           r == req'[p]
           id == FindByEmail(r.email)
       IN IF r.op = "login" /\ r.status = 400 /\ id # NoUser
          THEN [email |-> users[id].email,
                n |-> IF streak.n < MaxFailures THEN streak.n + 1 ELSE streak.n]
          ELSE IF r.op = "login" /\ r.status = 200
          THEN NoStreak
          ELSE streak
  ELSE streak

\* the loginAttempts that the last successful login found on record
ClearedNext ==
  IF \E p \in Procs : Replied(p)
  THEN LET p == CHOOSE q \in Procs : Replied(q)
           r == req'[p]
           id == FindByEmail(r.email)
       IN IF r.op = "login" /\ r.status = 200
          THEN [email |-> users[id].email, n |-> users[id].loginAttempts]
          ELSE streak
  ELSE streak

\* the tokens with which a verifyEmail or a resetPassword has succeeded
SpentNext ==
  spent \cup {req'[p].token : p \in {q \in Procs : /\ Replied(q)
                                                  /\ req'[q].op \in {"verifyEmail", "resetPassword"}
                                                  /\ req'[q].status = 200}}

History == streak' = StreakNext /\ spent' = SpentNext

-----------------------------------------------------------------------------
(* Specifications *)

\* the steps of the auth routes, for requests that name the addresses E and
\* Google assertions that name the addresses GE
AuthStep(p, E, GE) ==
  \/ RegisterStart(p, E)
  \/ RegisterCreate(p)
  \/ VerifyEmailStart(p)
  \/ VerifyEmailSave(p)
  \/ LoginStart(p, E)
  \/ LoginRotate(p)
  \/ LoginFail(p)
  \/ LoginOk(p)
  \/ GoogleLoginStart(p, GE)
  \/ GoogleLink(p)
  \/ GoogleVerify(p)
  \/ GoogleCreate(p)
  \/ ForgotPasswordStart(p, E)
  \/ ForgotPasswordSave(p)
  \/ ResetPasswordStart(p)
  \/ ResetPasswordSave(p)
  \/ ResendStart(p, E)
  \/ ResendSave(p)

\* one request at a time, every operation of the auth routes, on the account
\* a@x named in two spellings; the clock stands still
Next ==
  /\ \E p \in SeqProcs : AuthStep(p, EmailInputs, EmailInputs)
  /\ History
  /\ UNCHANGED <<now, ticks>>

Spec == Init /\ [][Next]_vars

\* one request at a time while time passes: the operations that read or write
\* the password and the reset token, and the clock between requests
NextReset ==
  /\ \/ \E p \in SeqProcs : \/ RegisterStart(p, EmailInputs)
                             \/ RegisterCreate(p)
                             \/ VerifyEmailStart(p)
                             \/ VerifyEmailSave(p)
                             \/ LoginStart(p, EmailInputs)
                             \/ LoginRotate(p)
                             \/ LoginFail(p)
                             \/ LoginOk(p)
                             \/ ForgotPasswordStart(p, EmailInputs)
                             \/ ForgotPasswordSave(p)
                             \/ ResetPasswordStart(p)
                             \/ ResetPasswordSave(p)
     \/ Quiet /\ Tick
  /\ spent' = SpentNext
  /\ UNCHANGED streak

SpecReset == Init /\ [][NextReset]_vars

ReferralStep(p) ==
  \/ GetReferralInfoStart(p)
  \/ GetReferralInfoFind(p)
  \/ GenerateReferralCode(p)
  \/ GetReferralInfoSave(p)
  \/ ApplyReferralCodeStart(p)
  \/ ApplyFindReferrer(p)
  \/ ApplyFindCurrent(p)
  \/ ApplySaveReferrer(p)
  \/ ApplySaveCurrent(p)
  \/ ShareReferralLinkStart(p)
  \/ ShareFind(p)
  \/ ShareSave(p)
  \/ GetSawabPointsStart(p)
  \/ GetSawabPointsFind(p)

\* the states in which the referral routes are exercised below: an account
\* is locked, every token of the run has been drawn and none is pending
ReferralWindow ==
  /\ nextToken > MaxTokens
  /\ \E i \in Ids : users[i].accountLocked
  /\ \A i \in Ids : /\ users[i].verificationToken = NoToken
                     /\ users[i].resetPasswordToken = NoToken

\* one request at a time, every operation of the auth and referral routes,
\* on a password account a@x and a second account that signs in with Google;
\* referral requests arrive once an account is locked
NextAll ==
  /\ \E p \in SeqProcs : \/ AuthStep(p, {"a@x"}, GoogleEmails)
                          \/ (ReferralWindow /\ ReferralStep(p))
  /\ UNCHANGED <<now, ticks, streak, spent>>

SpecAll == Init /\ [][NextAll]_vars

\* two requests whose store operations interleave: accounts are created by
\* register, and forgotPassword and resetPassword run on them while time passes
NextResetRace ==
  /\ \/ \E p \in Procs : \/ RegisterStart(p, EmailInputs)
                          \/ RegisterCreate(p)
                          \/ ForgotPasswordStart(p, EmailInputs)
                          \/ ForgotPasswordSave(p)
                          \/ ResetPasswordStart(p)
                          \/ ResetPasswordSave(p)
     \/ Tick
  /\ spent' = SpentNext
  /\ UNCHANGED streak

SpecResetRace == Init /\ [][NextResetRace]_vars

\* two requests that create accounts: register for one address in two
\* spellings, googleLogin for that address and a second one
NextCreateRace ==
  /\ \E p \in Procs : \/ RegisterStart(p, EmailInputs)
                       \/ RegisterCreate(p)
                       \/ GoogleLoginStart(p, GoogleEmails)
                       \/ GoogleLink(p)
                       \/ GoogleVerify(p)
                       \/ GoogleCreate(p)
  /\ UNCHANGED <<now, ticks, streak, spent>>

SpecCreateRace == Init /\ [][NextCreateRace]_vars

\* two requests on one address whose store operations interleave: the
\* operations that create the account or write isVerified, and the
\* re-issue of the verification token
NextVerifyRace ==
  /\ \E p \in Procs : \/ RegisterStart(p, {"a@x"})
                       \/ RegisterCreate(p)
                       \/ VerifyEmailStart(p)
                       \/ VerifyEmailSave(p)
                       \/ GoogleLoginStart(p, {"a@x"})
                       \/ GoogleLink(p)
                       \/ GoogleVerify(p)
                       \/ GoogleCreate(p)
                       \/ ResendStart(p, {"a@x"})
                       \/ ResendSave(p)
  /\ UNCHANGED <<now, ticks, streak, spent>>

SpecVerifyRace == Init /\ [][NextVerifyRace]_vars

\* two clients whose password logins interleave on one account, which
\* registers and verifies its address with one request at a time
NextLoginRace ==
  /\ \/ \E p \in SeqProcs : /\ \A q \in Procs \ {p} : CanStart(q)
                             /\ \/ RegisterStart(p, {"a@x"})
                                \/ RegisterCreate(p)
                                \/ VerifyEmailStart(p)
                                \/ VerifyEmailSave(p)
     \/ \E p \in Procs : \/ LoginStart(p, {"a@x"})
                          \/ LoginRotate(p)
                          \/ LoginFail(p)
                          \/ LoginOk(p)
  /\ streak' = FailuresNext
  /\ UNCHANGED <<now, ticks, spent>>

SpecLoginRace == Init /\ [][NextLoginRace]_vars

\* one request at a time while days pass: the operations that issue and
\* consume the verification token
NextVerifyClock ==
  /\ \/ \E p \in SeqProcs : \/ RegisterStart(p, {"a@x"})
                             \/ RegisterCreate(p)
                             \/ VerifyEmailStart(p)
                             \/ VerifyEmailSave(p)
                             \/ ResendStart(p, {"a@x"})
                             \/ ResendSave(p)
     \/ Quiet /\ TickDay
  /\ spent' = SpentNext
  /\ UNCHANGED streak

SpecVerifyClock == Init /\ [][NextVerifyClock]_vars

\* one request at a time: an account registers, verifies its address and
\* logs in with right and wrong passwords
NextLoginCount ==
  /\ \E p \in SeqProcs : \/ RegisterStart(p, {"a@x"})
                          \/ RegisterCreate(p)
                          \/ VerifyEmailStart(p)
                          \/ VerifyEmailSave(p)
                          \/ LoginStart(p, {"a@x"})
                          \/ LoginRotate(p)
                          \/ LoginFail(p)
                          \/ LoginOk(p)
  /\ streak' = ClearedNext
  /\ UNCHANGED <<now, ticks, spent>>

SpecLoginCount == Init /\ [][NextLoginCount]_vars

\* the addresses of the accounts that use the referral routes
ReferralEmails == {"a@x", "b@x", "c@x"}

\* the steps by which accounts come to exist without a password login: a
\* Google sign-in for a new address, and for an existing Google account
GoogleSignIn(p) ==
  \/ GoogleLoginStart(p, ReferralEmails)
  \/ GoogleVerify(p)
  \/ GoogleCreate(p)

\* one request at a time: three accounts sign in with Google and use the
\* referral routes
NextReferral ==
  /\ \E p \in SeqProcs : GoogleSignIn(p) \/ ReferralStep(p)
  /\ UNCHANGED <<now, ticks, streak, spent>>

SpecReferral == Init /\ [][NextReferral]_vars

\* the addresses of the accounts that meet the bearer gate
GateEmails == {"a@x", "b@x"}

\* one request at a time: two accounts sign in with Google, verified by
\* Google or not, and call the referral routes
NextGate ==
  /\ \E p \in SeqProcs : \/ GoogleLoginStart(p, GateEmails)
                          \/ GoogleVerify(p)
                          \/ GoogleCreate(p)
                          \/ ReferralStep(p)
  /\ UNCHANGED <<now, ticks, streak, spent>>

SpecGate == Init /\ [][NextGate]_vars

InfoSteps(p) ==
  \/ GetReferralInfoStart(p)
  \/ GetReferralInfoFind(p)
  \/ GenerateReferralCode(p)
  \/ GetReferralInfoSave(p)

ApplySteps(p) ==
  \/ ApplyReferralCodeStart(p)
  \/ ApplyFindReferrer(p)
  \/ ApplyFindCurrent(p)
  \/ ApplySaveReferrer(p)
  \/ ApplySaveCurrent(p)

ShareSteps(p) ==
  \/ ShareReferralLinkStart(p)
  \/ ShareFind(p)
  \/ ShareSave(p)

\* the address of the next account to sign up, while fewer than n exist
NextAddress(n) ==
  IF Len(users) >= n THEN {}
  ELSE IF Len(users) = 0 THEN {"a@x"}
  ELSE IF Len(users) = 1 THEN {"b@x"}
  ELSE {"c@x"}

\* the first Google sign-in of one of n accounts, the provider reporting the
\* email as verified
SignUp(p, n) ==
  \/ GoogleLoginStart(p, NextAddress(n)) /\ req'[p].emailVerified
  \/ GoogleCreate(p)

\* no request other than p's is in progress
Alone(p) == \A q \in Procs \ {p} : CanStart(q)

\* two clients whose referral requests interleave on two verified accounts,
\* which sign up one after the other
NextReferralRace ==
  /\ \/ \E p \in SeqProcs : Alone(p) /\ SignUp(p, 2)
     \/ \E p \in Procs : InfoSteps(p) \/ ApplySteps(p) \/ ShareSteps(p)
  /\ UNCHANGED <<now, ticks, streak, spent>>

SpecReferralRace == Init /\ [][NextReferralRace]_vars

\* one request at a time on two verified accounts, where either save of
\* applyReferralCode may be rejected by the store
NextApplyFailure ==
  /\ \E p \in SeqProcs : \/ SignUp(p, 2)
                          \/ InfoSteps(p)
                          \/ ApplySteps(p)
                          \/ ApplySaveReferrerFails(p)
                          \/ ApplySaveCurrentFails(p)
  /\ UNCHANGED <<now, ticks, streak, spent>>

SpecApplyFailure == Init /\ [][NextApplyFailure]_vars

\* one request at a time while time passes, on an account that signed up
\* with Google: forgotPassword and resetPassword draw every token of the run
NextSupersede ==
  /\ \/ \E p \in SeqProcs : \/ SignUp(p, 1)
                             \/ ForgotPasswordStart(p, {"a@x"})
                             \/ ForgotPasswordSave(p)
                             \/ ResetPasswordStart(p)
                             \/ ResetPasswordSave(p)
     \/ Quiet /\ Tick
  /\ spent' = SpentNext
  /\ UNCHANGED streak

SpecSupersede == Init /\ [][NextSupersede]_vars

\* one request at a time on the account a@x: every way the account's fields
\* come to differ from their defaults, and forgotPassword and resetPassword
NextResetFrame ==
  /\ \E p \in SeqProcs : \/ RegisterStart(p, {"a@x"})
                          \/ RegisterCreate(p)
                          \/ VerifyEmailStart(p)
                          \/ VerifyEmailSave(p)
                          \/ LoginStart(p, {"a@x"})
                          \/ LoginRotate(p)
                          \/ LoginFail(p)
                          \/ LoginOk(p)
                          \/ GoogleLoginStart(p, {"a@x"})
                          \/ GoogleLink(p)
                          \/ GoogleVerify(p)
                          \/ GoogleCreate(p)
                          \/ ForgotPasswordStart(p, {"a@x"})
                          \/ ForgotPasswordSave(p)
                          \/ ResetPasswordStart(p)
                          \/ ResetPasswordSave(p)
                          \/ InfoSteps(p)
                          \/ ShareSteps(p)
  /\ UNCHANGED <<now, ticks, streak, spent>>

SpecResetFrame == Init /\ [][NextResetFrame]_vars

\* a draw of generateReferralCode that finds its candidate free
DrawFree(p) ==
  /\ GenerateReferralCode(p)
  /\ req'[p].pc = "info_save"
  /\ UNCHANGED <<streak, spent>>

\* one request at a time: three accounts sign up and ask for their codes
NextGenerate ==
  /\ \E p \in SeqProcs : SignUp(p, 3) \/ InfoSteps(p)
  /\ UNCHANGED <<now, ticks, streak, spent>>

\* crypto.randomBytes is fair: a candidate that stays free is drawn in the end
SpecGenerate ==
  Init /\ [][NextGenerate]_vars /\ \A p \in SeqProcs : WF_vars(DrawFree(p))

\* two clients whose applyReferralCode requests interleave on three verified
\* accounts; the accounts sign up and obtain their codes one after the other
NextApplyRace ==
  /\ \/ \E p \in SeqProcs : Alone(p) /\ (SignUp(p, 3) \/ InfoSteps(p))
     \/ \E p \in Procs : ApplySteps(p)
  /\ UNCHANGED <<now, ticks, streak, spent>>

SpecApplyRace == Init /\ [][NextApplyRace]_vars

-----------------------------------------------------------------------------
(* Statements about the account state machine, one request at a time *)

\* the account a request's email names, in the state before the step
Account(r) == FindByEmail(r.email)

LockedReply(r) ==
  r.status = 401 /\ r.message = "Your account has been locked" /\ r.jwt = NoUser

\* C1: after five consecutive wrong-password logins on a verified, unlocked
\* account with loginAttempts = 0 the account is locked, and from then on
\* every password login on it, also one with the correct password, gets the
\* account-locked response and no bearer token.
C1_LockoutAfterFive ==
  [][ /\ streak'.n >= 5 =>
           \E i \in 1..Len(users') : /\ users'[i].email = streak'.email
                                     /\ users'[i].accountLocked
      /\ \A p \in Procs :
           ( /\ Replied(p)
             /\ req'[p].op = "login"
             /\ streak.n >= 5
             /\ Lower(req'[p].email) = streak.email )
           => LockedReply(req'[p]) /\ users' = users ]_vars

\* five wrong passwords were given and a login with the right password was
\* then answered with the account-locked error
C1_Witness ==
  \E p \in Procs :
    /\ streak.n >= 5
    /\ req[p].pc = "done" /\ req[p].op = "login"
    /\ Lower(req[p].email) = streak.email
    /\ \E i \in Ids : users[i].email = streak.email
                      /\ Compare(req[p].password, users[i].password)
    /\ LockedReply(req[p])

\* C2: accountLocked is sticky: no step of any operation of the auth and
\* referral routes takes an account from locked to unlocked.
C2_LockIsSticky ==
  [][ \A i \in Ids : users[i].accountLocked => users'[i].accountLocked ]_vars

\* a locked account has applied a referral code and was credited for it
C2_Witness ==
  \E p \in Procs, i \in Ids :
    /\ users[i].accountLocked
    /\ users[i].referredBy # NoUser
    /\ users[i].sawabPoints > 0
    /\ req[p].pc = "done" /\ req[p].op = "applyReferralCode"
    /\ req[p].status = 200 /\ req[p].bearer = i

\* C3: a successful resetPassword leaves the account unlocked.
C3_ResetUnlocks ==
  [][ \A p \in Procs :
        ( /\ Replied(p)
          /\ req'[p].op = "resetPassword"
          /\ req'[p].status = 200 )
        => ~users'[req[p].id].accountLocked ]_vars

\* C4: a password login on a registered, unverified account without OAuth
\* linkage is answered with the email-not-verified error and no bearer token,
\* whatever the password; loginAttempts is unchanged and verificationToken
\* is replaced by a new value, so that verifyEmail finds no account under
\* the previous token and finds this account under the new one.
C4_UnverifiedLoginRotates ==
  [][ \A p \in Procs :
        LET r == req'[p]
            id == Account(r) IN
        ( /\ Replied(p)
          /\ r.op = "login"
          /\ id # NoUser
          /\ ~users[id].isVerified
          /\ users[id].googleId = "" )
        => /\ r.status = 401
           /\ r.message = "Please verify your email before logging in"
           /\ r.jwt = NoUser
           /\ users'[id].loginAttempts = users[id].loginAttempts
           /\ users'[id].verificationToken \notin {NoToken, users[id].verificationToken}
           /\ users[id].verificationToken # NoToken
           /\ \A i \in 1..Len(users') :
                users'[i].verificationToken # users[id].verificationToken
           /\ \A i \in 1..Len(users') :
                users'[i].verificationToken = users'[id].verificationToken => i = id ]_vars

\* a login with the right password on an unverified account was refused
C4_Witness ==
  \E p \in Procs, i \in Ids :
    /\ req[p].pc = "done" /\ req[p].op = "login"
    /\ req[p].message = "Please verify your email before logging in"
    /\ users[i].email = Lower(req[p].email)
    /\ Compare(req[p].password, users[i].password)
    /\ ~users[i].isVerified
    /\ users[i].verificationToken # NoToken

\* C5: a password login that returns a bearer token is a login on an account
\* whose isVerified is true.
C5_VerifiedBeforeLogin ==
  \A p \in Procs :
    ( /\ req[p].pc = "done"
      /\ req[p].op = "login"
      /\ req[p].jwt # NoUser )
    => users[req[p].jwt].isVerified

\* C6: verifyEmail with a stored verification token verifies that account,
\* clears the token and returns a bearer token for it; verifyEmail with a
\* token that has already verified an account gets the invalid-token error
\* and changes no record.
C6_VerifyOnce ==
  [][ \A p \in Procs :
        LET r == req'[p]
            id == FindByVerificationToken(r.token) IN
        ( Replied(p) /\ r.op = "verifyEmail" )
        => /\ id # NoUser =>
                /\ r.status = 200
                /\ r.jwt = id
                /\ users'[id].isVerified
                /\ users'[id].verificationToken = NoToken
           /\ r.token \in spent =>
                /\ r.status = 400
                /\ r.message = "Invalid verification token"
                /\ r.jwt = NoUser
                /\ users' = users ]_vars

\* a token that verified an account was presented again and refused
C6_Witness ==
  \E p \in Procs :
    /\ req[p].pc = "done" /\ req[p].op = "verifyEmail"
    /\ req[p].token \in spent
    /\ req[p].status = 400
    /\ \E i \in Ids : users[i].isVerified

\* C7: a verified account holds neither a verification token nor its expiry.
C7_VerifiedHoldsNoToken ==
  \A i \in Ids :
    users[i].isVerified =>
      /\ users[i].verificationToken = NoToken
      /\ users[i].verificationTokenExpiry = NoDate

\* C8: resetPassword succeeds exactly when the token is a stored
\* resetPasswordToken whose expiry is strictly later than the current time;
\* otherwise it gets the invalid-or-expired error and changes nothing; a
\* success stores the new password and clears token and expiry, and a token
\* that has reset a password is refused afterwards.
C8_ResetTokenOnce ==
  [][ \A p \in Procs :
        LET r == req'[p]
            M == {i \in Ids : /\ users[i].resetPasswordToken = r.token
                              /\ users[i].resetPasswordExpiry > now} IN
        ( Replied(p) /\ r.op = "resetPassword" )
        => /\ r.status = 200 <=> M # {}
           /\ M = {} =>
                /\ r.status = 400
                /\ r.message = "Invalid or expired reset token"
                /\ users' = users
           /\ \A i \in M :
                /\ users'[i].password = Hash(r.password)
                /\ users'[i].resetPasswordToken = NoToken
                /\ users'[i].resetPasswordExpiry = NoDate
           /\ r.token \in spent => r.status = 400 /\ users' = users ]_vars

\* after time has passed, a spent reset token was presented with another
\* password and refused, and the password set by the first reset stayed
C8_Witness ==
  \E p \in Procs, i \in Ids :
    /\ req[p].pc = "done" /\ req[p].op = "resetPassword"
    /\ req[p].status = 400
    /\ req[p].token \in spent
    /\ users[i].password \in {Hash(pw) : pw \in Passwords \ {req[p].password}}
    /\ users[i].resetPasswordToken = NoToken
    /\ now > StartOfTime

-----------------------------------------------------------------------------
(* Statements about interleaved requests *)

\* C9: of the resetPassword requests that carry one token, at most one
\* succeeds.
C9_ResetSingleUse ==
  \A t \in Tokens :
    Cardinality({p \in Procs : /\ req[p].pc = "done"
                               /\ req[p].op = "resetPassword"
                               /\ req[p].token = t
                               /\ req[p].status = 200}) <= 1

\* C10: no two User records have the same email.
C10_OneUserPerEmail ==
  \A i, j \in Ids : users[i].email = users[j].email => i = j

\* two requests found no record for an address, one created it and the
\* insert of the other was refused by the unique index
C10_Witness ==
  \E p \in Procs, i \in Ids :
    /\ req[p].pc = "done"
    /\ users[i].email = Lower(req[p].email)
    /\ \/ req[p].op = "register" /\ req[p].status = 500
       \/ req[p].op = "googleLogin" /\ req[p].status = 401

-----------------------------------------------------------------------------
(* Statements about register *)

-----------------------------------------------------------------------------
(* Statements about the referral routes, one request at a time *)

\* C12: the writes of an applyReferralCode request are these two and no
\* other: the save of the referrer adds 5 to the referrer's sawabPoints and 1
\* to its referralCount, and the save of the caller, which ends the request
\* with success, adds 2 to the caller's sawabPoints and sets its referredBy to
\* the referrer; every other field and every other user is unchanged, the
\* referrer is not the caller and the caller's referredBy was unset.
C12_ApplyFrame ==
  [][ \A p \in Procs :
        LET r == req[p] IN
        ( req'[p] # r /\ req'[p].op = "applyReferralCode" )
        => IF r.pc = "apply_save_referrer"
           THEN /\ users' = [users EXCEPT ![r.other].sawabPoints = @ + 5,
                                          ![r.other].referralCount = @ + 1]
                /\ r.other # r.id
                /\ users[r.id].referredBy = NoUser
                /\ req'[p].pc = "apply_save_current"
           ELSE IF r.pc = "apply_save_current"
           THEN /\ users' = [users EXCEPT ![r.id].sawabPoints = @ + 2,
                                          ![r.id].referredBy = r.other]
                /\ r.other # r.id
                /\ users[r.id].referredBy = NoUser
                /\ req'[p].status = 200
           ELSE users' = users /\ req'[p].status # 200 ]_vars

\* an applyReferralCode succeeded: the referrer holds 5 points and one
\* referral, the caller 2 points and the reference to the referrer
C12_Witness ==
  \E p \in Procs, c, rf \in Ids :
    /\ req[p].pc = "done" /\ req[p].op = "applyReferralCode" /\ req[p].status = 200
    /\ req[p].bearer = c /\ c # rf
    /\ users[c].referredBy = rf /\ users[c].sawabPoints = 2
    /\ users[rf].sawabPoints = 5 /\ users[rf].referralCount = 1
    /\ users[rf].referralCode = req[p].code

\* C13: once a caller's referredBy is set, which only a successful
\* applyReferralCode does, every applyReferralCode request of that caller
\* with the code of another user ends at the check of the caller with the
\* already-referred error, and no step of such a request changes a record.
C13_SecondApplyRefused ==
  [][ \A p \in Procs :
        LET r == req'[p]
            b == r.bearer IN
        ( /\ req'[p] # req[p]
          /\ r.op = "applyReferralCode"
          /\ b # NoUser
          /\ users[b].referredBy # NoUser )
        => /\ users' = users
           /\ r.status # 200
           /\ req[p].pc = "apply_find_current" =>
                /\ Replied(p)
                /\ r.status = 400
                /\ r.message = "You have already used a referral code"
           /\ ( Replied(p) /\ FindByReferralCode(r.code) \notin {NoUser, b} )
                => req[p].pc = "apply_find_current" ]_vars

\* a caller that had applied the code of one user presented the code of
\* another user and was refused; the rewards of the first time are in place
\* and the other user has none
C13_Witness ==
  \E p \in Procs, c, rf, o \in Ids :
    /\ req[p].pc = "done" /\ req[p].op = "applyReferralCode"
    /\ req[p].status = 400
    /\ req[p].message = "You have already used a referral code"
    /\ req[p].bearer = c
    /\ users[c].referredBy = rf /\ o \notin {c, rf}
    /\ users[o].referralCode = req[p].code
    /\ users[o].referralCount = 0 /\ users[o].sawabPoints = 0
    /\ users[rf].referralCount = 1 /\ users[rf].sawabPoints = 5
    /\ users[c].sawabPoints = 2

\* C15: an applyReferralCode request of a caller whose bearer token is
\* presented with the caller's own referralCode ends with the self-referral
\* error and no step of it changes a record, whether the caller is locked or
\* already referred; an account that holds a referralCode is verified, so the
\* middleware lets every such request through to the handler.
C15_SelfReferralRefused ==
  [][ /\ \A i \in Ids : users[i].referralCode # "" => users[i].isVerified
      /\ \A p \in Procs :
           LET r == req'[p]
               b == r.bearer IN
           ( /\ req'[p] # req[p]
             /\ r.op = "applyReferralCode"
             /\ b # NoUser
             /\ users[b].referralCode = r.code )
           => /\ users' = users
              /\ Replied(p) => /\ r.status = 400
                               /\ r.message = "You cannot refer yourself" ]_vars

\* a locked and already referred caller presented its own code and got the
\* self-referral error
C15_Witness ==
  \E p \in Procs, b \in Ids :
    /\ req[p].pc = "done" /\ req[p].op = "applyReferralCode"
    /\ req[p].bearer = b /\ users[b].referralCode = req[p].code
    /\ req[p].status = 400 /\ req[p].message = "You cannot refer yourself"
    /\ users[b].accountLocked
    /\ users[b].referredBy # NoUser

-----------------------------------------------------------------------------
(* Statements about interleaved referral requests *)

\* C14: a referral is consumed at most once per account: of two
\* applyReferralCode requests of one caller that carry the codes of two
\* different referrers, at most one succeeds.
C14_ReferralConsumedOnce ==
  \A p, q \in Procs :
    ( /\ p # q
      /\ req[p].pc = "done" /\ req[p].op = "applyReferralCode"
      /\ req[q].pc = "done" /\ req[q].op = "applyReferralCode"
      /\ req[p].bearer = req[q].bearer
      /\ req[p].code # req[q].code )
    => ~(req[p].status = 200 /\ req[q].status = 200)

-----------------------------------------------------------------------------
(* Statements about googleLogin *)

\* C16: with one request at a time, a googleLogin with a valid assertion for
\* an address that has no record creates one user, with isVerified equal to
\* the assertion's email_verified and googleId equal to its subject, and
\* answers 200 with a token for it; a googleLogin for an address that has a
\* record adds no record, leaves every password alone and answers 200 with a
\* token for that record, whatever the record's password and lock state.
C16_GoogleFindOrCreate ==
  [][ \A p \in Procs :
        LET r == req'[p]
            id == Account(r) IN
        ( /\ req'[p] # req[p]
          /\ r.op = "googleLogin"
          /\ r.email # "" )
        => IF id # NoUser
           THEN /\ Len(users') = Len(users)
                /\ \A i \in Ids : users'[i].password = users[i].password
                /\ Replied(p) => r.status = 200 /\ r.jwt = GenerateToken(id)
           ELSE IF req[p].pc = "google_create"
           THEN /\ Len(users') = Len(users) + 1
                /\ SubSeq(users', 1, Len(users)) = users
                /\ LET u == users'[Len(users')] IN
                   /\ u.email = Lower(r.email)
                   /\ u.isVerified = r.emailVerified
                   /\ u.googleId = r.sub
                /\ Replied(p)
                /\ r.status = 200 /\ r.jwt = GenerateToken(Len(users'))
           ELSE users' = users /\ r.pc = "google_create" ]_vars

\* a googleLogin with email_verified = false was answered with a token for a
\* verified account that an earlier googleLogin created
C16_Witness ==
  \E p \in Procs :
    LET r == req[p] IN
    /\ r.pc = "done" /\ r.op = "googleLogin" /\ r.status = 200
    /\ r.jwt # NoUser
    /\ r.jwt = Account(r)
    /\ Len(users) = 1
    /\ users[r.jwt].password = Hash("random")
    /\ users[r.jwt].googleId = r.sub
    /\ users[r.jwt].isVerified /\ ~r.emailVerified

\* C17: every googleLogin with a valid assertion is answered 200 with a bearer
\* token, whatever the state of the account and whatever other requests for
\* the address are in progress.
C17_GoogleLoginSucceeds ==
  [][ \A p \in Procs :
        LET r == req'[p] IN
        ( /\ Replied(p)
          /\ r.op = "googleLogin"
          /\ r.email # "" )
        => r.status = 200 /\ r.jwt # NoUser ]_vars

\* C18: isVerified is never downgraded: no step of any request, alone or
\* interleaved with another, takes an account's isVerified from true to
\* false; a googleLogin with email_verified = false on a verified account
\* leaves it verified.
C18_VerifiedStays ==
  [][ \A i \in Ids : users[i].isVerified => users'[i].isVerified ]_vars

\* a googleLogin with email_verified = false was answered for an account that
\* registered with a password and is verified
C18_Witness ==
  \E p \in Procs :
    LET r == req[p] IN
    /\ r.pc = "done" /\ r.op = "googleLogin" /\ r.status = 200
    /\ ~r.emailVerified
    /\ Account(r) # NoUser
    /\ users[Account(r)].password # Hash("random")
    /\ users[Account(r)].isVerified

-----------------------------------------------------------------------------
(* Statements about the referral counters and codes under interleaving *)

\* C19: every user's sawabPoints and referralCount are non-negative and no
\* step takes either of them down, whatever the interleaving of
\* getReferralInfo, applyReferralCode and shareReferralLink requests.
C19_CountersNeverDecrease ==
  [][ \A i \in Ids :
        /\ users[i].sawabPoints >= 0 /\ users[i].referralCount >= 0
        /\ users'[i].sawabPoints >= users[i].sawabPoints
        /\ users'[i].referralCount >= users[i].referralCount ]_vars

\* C20: in every reachable state no two users hold the same referralCode,
\* also when the first getReferralInfo requests of two users interleave and
\* draw the same candidate.
C20_ReferralCodesDistinct ==
  \A i, j \in Ids :
    (users[i].referralCode # "" /\ users[i].referralCode = users[j].referralCode)
    => i = j

\* two users' first getReferralInfo requests drew the same candidate: one
\* holds it, and the save of the other was refused and answered 500
C20_Witness ==
  \E p \in Procs, i \in Ids :
    LET r == req[p] IN
    /\ r.pc = "done" /\ r.op = "getReferralInfo" /\ r.status = 500
    /\ r.bearer # NoUser /\ r.bearer # i
    /\ users[r.bearer].referralCode = ""
    /\ users[i].referralCode \in Candidates(r.bearer)

\* C21: a code that a getReferralInfo response returned for a user is that
\* user's stored referralCode in every later state, also when two first
\* getReferralInfo requests of the same user interleave.
C21_ReturnedCodeIsStored ==
  \A p \in Procs :
    LET r == req[p] IN
    ( /\ r.pc = "done" /\ r.op = "getReferralInfo" /\ r.status = 200 )
    => users[r.bearer].referralCode = r.code

-----------------------------------------------------------------------------
(* Statements about shareReferralLink *)

\* C22: with one request at a time, every shareReferralLink of a verified
\* caller reaches its save, whatever the caller's points, and the save adds
\* exactly 2 to the caller's sawabPoints and changes no other field of any
\* user; the response is 200 with the new total. No other step of the
\* request changes a record.
C22_ShareAddsTwo ==
  [][ \A p \in Procs :
        LET r == req'[p] IN
        ( req'[p] # req[p] /\ r.op = "shareReferralLink" )
        => IF req[p].pc = "share_save"
           THEN /\ users' = [users EXCEPT ![r.bearer].sawabPoints = @ + 2]
                /\ Replied(p)
                /\ r.status = 200
                /\ r.points = users[r.bearer].sawabPoints + 2
           ELSE /\ users' = users
                /\ Replied(p) => \/ r.bearer = NoUser
                                 \/ ~users[r.bearer].isVerified ]_vars

\* two calls in a row: an account that never took part in a referral holds
\* 4 points after a share answered with 4
C22_Witness ==
  \E p \in Procs :
    LET r == req[p] IN
    /\ r.pc = "done" /\ r.op = "shareReferralLink" /\ r.status = 200
    /\ r.points = 4
    /\ users[r.bearer].sawabPoints = 4
    /\ users[r.bearer].referredBy = NoUser
    /\ users[r.bearer].referralCount = 0

-----------------------------------------------------------------------------
(* Statements about loginUser *)

\* C23: a password login for an address without a record and a password
\* login with a wrong password on a verified, unlocked account get the same
\* response: status 400, message 'Invalid credentials', no token.
C23_SameRefusal ==
  [][ \A p \in Procs :
        LET r == req'[p]
            id == Account(r) IN
        ( /\ Replied(p)
          /\ r.op = "login"
          /\ \/ id = NoUser
             \/ /\ id # NoUser
                /\ users[id].isVerified
                /\ ~users[id].accountLocked
                /\ ~Compare(r.password, users[id].password) )
        => /\ r.status = 400
           /\ r.message = "Invalid credentials"
           /\ r.jwt = NoUser ]_vars

\* a wrong password on a verified, unlocked account was answered like a
\* login for an unknown address
C23_Witness ==
  \E p \in Procs :
    LET r == req[p]
        id == Account(r) IN
    /\ r.pc = "done" /\ r.op = "login"
    /\ r.status = 400 /\ r.message = "Invalid credentials"
    /\ id # NoUser
    /\ users[id].isVerified /\ ~users[id].accountLocked
    /\ users[id].loginAttempts >= 1
    /\ ~Compare(r.password, users[id].password)

\* C24: a wrong-password login writes the loginAttempts it read at its
\* findOne plus one, whatever the stored value is by then; so when two such
\* logins interleave an increment is lost, and more than five wrong-password
\* logins are answered while the account stays unlocked.
C24_StaleIncrement ==
  [][ \A p \in Procs :
        ( req[p].pc = "login_fail" /\ req'[p] # req[p] )
        => /\ users'[req[p].id].loginAttempts = req[p].doc.loginAttempts + 1
           /\ Replied(p)
           /\ req'[p].status = 400 ]_vars

\* six wrong-password logins in a row were answered and the account is
\* unlocked, with fewer than five attempts on record
C24_Witness ==
  \E i \in Ids :
    /\ streak.n >= 6
    /\ streak.email = users[i].email
    /\ ~users[i].accountLocked
    /\ users[i].loginAttempts < LOCK_THRESHOLD

-----------------------------------------------------------------------------
(* Statements about failures inside applyReferralCode *)

\* the users whose referredBy names i
ReferredBy(i) == {j \in Ids : users[j].referredBy = i}

-----------------------------------------------------------------------------
(* Statements about the stored fields *)

\* C26: in every reachable state no two users hold the same googleId, also
\* when one provider subject signs in with two different addresses.
C26_GoogleIdsDistinct ==
  \A i, j \in Ids :
    (users[i].googleId # "" /\ users[i].googleId = users[j].googleId) => i = j

\* C27: verifyEmail does not consult verificationTokenExpiry: a request
\* whose token is a stored verificationToken is answered 200 and verifies
\* the account at any time, also after the stored expiry; only a token
\* that no account holds is refused.
C27_VerifyIgnoresExpiry ==
  [][ \A p \in Procs :
        LET r == req'[p]
            M == {i \in Ids : users[i].verificationToken = r.token} IN
        ( Replied(p) /\ r.op = "verifyEmail" )
        => /\ r.status = 200 <=> M # {}
           /\ \A i \in M : i = Min(M) => /\ users'[i].isVerified
                                         /\ r.jwt = GenerateToken(i) ]_vars

\* a verifyEmail succeeded after the expiry recorded when its token was
\* issued
C27_Witness ==
  \E p \in Procs :
    LET r == req[p] IN
    /\ r.pc = "done" /\ r.op = "verifyEmail" /\ r.status = 200
    /\ r.jwt # NoUser
    /\ users[r.jwt].isVerified
    /\ users[r.jwt].verificationTokenExpiry # NoDate
    /\ now > users[r.jwt].verificationTokenExpiry

-----------------------------------------------------------------------------
(* Statements about forgotPassword and resetPassword *)

\* C28: a forgotPassword supersedes the pending reset token: its save
\* stores the new token and expiry, and the token stored before is held by
\* no account afterwards; a resetPassword with an issued token that no
\* account holds is refused and changes nothing, and one with the stored
\* token before its expiry is answered 200; and in every state
\* resetPasswordToken is present exactly when resetPasswordExpiry is.
C28_ForgotSupersedes ==
  [][ /\ \A p \in Procs :
           LET r == req[p] IN
           ( r.pc = "forgot_save" /\ req'[p] # req[p] )
           => /\ users'[r.id].resetPasswordToken = r.fresh
              /\ users'[r.id].resetPasswordExpiry = r.expiry
              /\ r.fresh # users[r.id].resetPasswordToken
              /\ users[r.id].resetPasswordToken # NoToken
                   => \A i \in Ids :
                        users'[i].resetPasswordToken # users[r.id].resetPasswordToken
      /\ \A p \in Procs :
           LET r == req'[p]
               held == {i \in Ids : users[i].resetPasswordToken = r.token} IN
           ( Replied(p) /\ r.op = "resetPassword" )
           => /\ held = {} => r.status = 400 /\ users' = users
              /\ \A i \in held :
                   users[i].resetPasswordExpiry > now => r.status = 200
      /\ \A i \in 1..Len(users') :
           users'[i].resetPasswordToken = NoToken
             <=> users'[i].resetPasswordExpiry = NoDate ]_vars

\* two tokens were issued for one account and no time has passed; a
\* resetPassword with the first, which has never reset a password, was
\* refused while the account holds the second
C28_Witness ==
  \E p \in Procs, i \in Ids :
    LET r == req[p] IN
    /\ r.pc = "done" /\ r.op = "resetPassword" /\ r.status = 400
    /\ r.token = 1 /\ nextToken = 3
    /\ r.token \notin spent
    /\ users[i].resetPasswordToken = 2
    /\ users[i].resetPasswordExpiry > now
    /\ now = StartOfTime

\* C29: a successful resetPassword changes only password,
\* resetPasswordToken and resetPasswordExpiry of the account it matched:
\* accountLocked, loginAttempts, isVerified, googleId, verificationToken
\* and the referral fields of that account, and every other account, stay
\* as they were.
C29_ResetFrame ==
  [][ \A p \in Procs :
        LET r == req'[p] IN
        ( Replied(p) /\ r.op = "resetPassword" /\ r.status = 200 )
        => \E i \in Ids :
             /\ users[i].resetPasswordToken = r.token
             /\ users' = [users EXCEPT ![i] =
                            [@ EXCEPT !.password = Hash(r.password),
                                      !.resetPasswordToken = NoToken,
                                      !.resetPasswordExpiry = NoDate]] ]_vars

\* a resetPassword succeeded on a locked account that is linked to Google
\* and holds points and a referral code, and all of that stayed
C29_Witness ==
  \E p \in Procs, i \in Ids :
    LET r == req[p] IN
    /\ r.pc = "done" /\ r.op = "resetPassword" /\ r.status = 200
    /\ users[i].password = Hash(r.password)
    /\ users[i].resetPasswordToken = NoToken
    /\ users[i].accountLocked
    /\ users[i].loginAttempts = LOCK_THRESHOLD
    /\ users[i].isVerified
    /\ users[i].googleId # ""
    /\ users[i].sawabPoints > 0
    /\ users[i].referralCode # ""

-----------------------------------------------------------------------------
(* Statements about the failure counter *)

\* C30: the lockout counter counts consecutive failures only. With one
\* request at a time, a successful password login stores loginAttempts = 0
\* and the current time as lastLogin; a wrong password stores one more
\* attempt and locks the account exactly when that makes five; so four
\* wrong passwords, a correct one and four more wrong ones leave the
\* account unlocked with loginAttempts = 4.
C30_SuccessClearsCount ==
  [][ /\ \A p \in Procs :
           LET r == req[p] IN
           ( req'[p] # req[p] /\ r.pc = "login_ok" )
           => /\ users'[r.id].loginAttempts = 0
              /\ users'[r.id].lastLogin = now
              /\ ~users'[r.id].accountLocked
              /\ req'[p].status = 200 /\ req'[p].jwt = GenerateToken(r.id)
      /\ \A p \in Procs :
           LET r == req[p] IN
           ( req'[p] # req[p] /\ r.pc = "login_fail" )
           => /\ users'[r.id].loginAttempts = users[r.id].loginAttempts + 1
              /\ users'[r.id].accountLocked
                   <=> users'[r.id].loginAttempts >= LOCK_THRESHOLD
              /\ users'[r.id].lastLogin = users[r.id].lastLogin ]_vars

\* a correct password cleared four attempts, and four wrong passwords later
\* the account is unlocked with four attempts on record
C30_Witness ==
  \E p \in Procs, i \in Ids :
    /\ streak.n = 4 /\ streak.email = users[i].email
    /\ req[p].pc = "done" /\ req[p].op = "login" /\ req[p].status = 400
    /\ users[i].loginAttempts = 4
    /\ ~users[i].accountLocked
    /\ users[i].lastLogin # NoDate

-----------------------------------------------------------------------------
(* Statements about generateReferralCode *)

\* a candidate derivable for the user id of p's request is held by no user
SomeCandidateFree(p) ==
  \E c \in Candidates(req[p].id) : FindByReferralCode(c) = NoUser

\* C31: generateReferralCode returns only a code that no user held when its
\* uniqueness query ran; on a collision it draws again, with no bound on the
\* number of draws; while every candidate derivable for the user id is
\* taken it does not return; and when a candidate is free and the random
\* draws are fair it returns.
C31_GenerateUntilFree ==
  /\ [][ \A p \in Procs :
           req[p].pc = "info_generate"
           => /\ req'[p].pc \in {"info_generate", "info_save"}
              /\ req'[p].pc = "info_save"
                   => /\ req'[p].code \in Candidates(req[p].id)
                      /\ FindByReferralCode(req'[p].code) = NoUser
              /\ ~SomeCandidateFree(p) => req'[p].pc = "info_generate" ]_vars
  /\ \A p \in SeqProcs :
       (req[p].pc = "info_generate" /\ SomeCandidateFree(p))
         ~> (req[p].pc = "info_save")

\* the third account asks for its code while the other two hold both
\* candidates, and its request stays in generateReferralCode after a draw
C31_Witness ==
  \E p \in Procs :
    /\ req[p].pc = "info_generate"
    /\ req[p].code # ""
    /\ ~SomeCandidateFree(p)
    /\ users[req[p].id].referralCode = ""

-----------------------------------------------------------------------------
(* Statements about forgotPassword when the mail dispatch fails *)

\* C32: forgotPassword saves the new reset token and expiry before it
\* dispatches the mail. A request whose dispatch fails is answered 500, and
\* yet the account holds the new token with an expiry one hour ahead, so a
\* resetPassword with it finds the account and is answered 200, and the
\* token that was pending before matches no account.
C32_TokenStoredBeforeMail ==
  [][ /\ \A p \in Procs :
           LET r == req[p]
               old == users[r.id].resetPasswordToken IN
           ( r.pc = "forgot_save" /\ Replied(p) /\ req'[p].status = 500 )
           => /\ users'[r.id].resetPasswordToken = r.fresh
              /\ users'[r.id].resetPasswordExpiry = now + RESET_TTL
              /\ ResetTokenMatches(users'[r.id], r.fresh, now)
              /\ \A i \in Ids : ResetTokenMatches(users'[i], r.fresh, now) => i = r.id
              /\ old # NoToken
                   => \A i \in Ids : ~ResetTokenMatches(users'[i], old, now)
      /\ \A p \in Procs :
           LET r == req'[p] IN
           ( /\ Replied(p) /\ r.op = "resetPassword"
             /\ \E i \in Ids : ResetTokenMatches(users[i], r.token, now) )
           => /\ r.status = 200
              /\ \E i \in Ids : /\ users[i].resetPasswordToken = r.token
                                /\ users'[i].password = Hash(r.password) ]_vars

\* a second forgotPassword was answered 500 after its mail dispatch failed,
\* and the account holds its token, unexpired, in place of the first
C32_Witness ==
  \E p \in Procs, i \in Ids :
    LET r == req[p] IN
    /\ r.pc = "done" /\ r.op = "forgotPassword" /\ r.status = 500
    /\ Account(r) = i
    /\ nextToken = 3
    /\ users[i].resetPasswordToken = 2
    /\ users[i].resetPasswordExpiry > now

-----------------------------------------------------------------------------
(* Statements about the lock and the failure counter *)

\* C33: in every reachable state, whatever the interleaving of password
\* logins on an account, accountLocked is true exactly when loginAttempts
\* is at least 5, and loginAttempts is at most 5.
C33_LockedIffFiveAttempts ==
  \A i \in Ids :
    /\ users[i].accountLocked <=> users[i].loginAttempts >= LOCK_THRESHOLD
    /\ users[i].loginAttempts <= LOCK_THRESHOLD

-----------------------------------------------------------------------------
(* Statements about the referral ledger *)

\* C34: when requests run one at a time and no write fails, in every state
\* between two requests each user's referralCount equals the number of
\* users whose referredBy points to that user, and no user's referredBy
\* points to the user itself.
C34_LedgerConsistent ==
  Quiet =>
    \A i \in Ids :
      /\ users[i].referralCount = Cardinality(ReferredBy(i))
      /\ users[i].referredBy # i

\* a user has applied the code of another, and the request is over
C34_Witness ==
  /\ Quiet
  /\ \E i \in Ids, p \in Procs :
       /\ req[p].op = "applyReferralCode"
       /\ req[p].status = 200
       /\ req[p].bearer # i
       /\ users[i].referralCount = 1
       /\ ReferredBy(i) = {req[p].bearer}

-----------------------------------------------------------------------------
(* Statements about bearer tokens and locked accounts *)

\* C35: while an account's accountLocked is true, no operation other than
\* googleLogin answers with a bearer token for it: neither a password login
\* nor verifyEmail with a verification token still stored on the account.
C35_LockedGetsNoToken ==
  [][\A p \in Procs :
       (/\ Replied(p)
        /\ req'[p].jwt \in Ids
        /\ users[req'[p].jwt].accountLocked)
       => req'[p].op = "googleLogin"]_vars

-----------------------------------------------------------------------------
(* Statements about the bearer gate of the referral routes *)

\* the operations mounted behind protect on /api/referral
ReferralOps ==
  {"getReferralInfo", "applyReferralCode", "shareReferralLink", "getSawabPoints"}

\* the fields of a user that the referral operations write
ReferralFields(u) ==
  <<u.referralCode, u.sawabPoints, u.referralCount, u.referredBy>>

\* C36: the bearer gate lets a referral operation run only for an existing
\* user whose isVerified is true: a request without a token or with an
\* invalid one, and a request with the token of an unverified user (one
\* issued by googleLogin with email_verified = false), is answered 401 at
\* once and changes no referralCode, sawabPoints, referralCount or
\* referredBy; and every change of these fields is made by a request whose
\* bearer is an existing verified user.
C36_GateAdmitsVerifiedOnly ==
  [][/\ \A p \in Procs :
          (CanStart(p) /\ req'[p] # req[p] /\ req'[p].op \in ReferralOps) =>
            LET r == req'[p] IN
            IF r.bearer \in Ids /\ users[r.bearer].isVerified
            THEN r.pc # "done" /\ r.id = r.bearer
            ELSE /\ r.pc = "done" /\ r.status = 401 /\ r.jwt = NoUser
                 /\ r.message = IF r.bearer = NoUser
                                THEN "Not authorized to access this route"
                                ELSE "Email not verified"
                 /\ \A i \in Ids : ReferralFields(users'[i]) = ReferralFields(users[i])
     /\ \A p \in Procs :
          (req'[p] # req[p] /\ req'[p].op \in ReferralOps /\ req'[p].status = 401) =>
            \A i \in Ids : ReferralFields(users'[i]) = ReferralFields(users[i])
     /\ \A i \in Ids :
          ReferralFields(users'[i]) # ReferralFields(users[i]) =>
            \E p \in Procs : /\ req[p].op \in ReferralOps
                             /\ req[p].bearer \in Ids
                             /\ users[req[p].bearer].isVerified]_vars

\* an account created by a Google sign-in with email_verified = false has
\* asked for a referral operation and was turned away
C36_Witness ==
  \E p \in Procs :
    /\ req[p].pc = "done" /\ req[p].op \in ReferralOps
    /\ req[p].status = 401 /\ req[p].message = "Email not verified"
    /\ req[p].bearer \in Ids
    /\ ~users[req[p].bearer].isVerified
    /\ users[req[p].bearer].googleId # ""
    /\ ReferralFields(users[req[p].bearer]) = <<"", 0, 0, NoUser>>

====
